---- MODULE Spec2Model ----
(***************************************************************************)
(* Virtual gamepad of the retro player: the VirtualController container,   *)
(* the generic VirtualButton touch handlers (useTouchHandlers), the D-pad  *)
(* and the keyboard event bridge.                                          *)
(*                                                                         *)
(* Rendering.  Handlers are closures of the render whose listener effect   *)
(* ran last.  A state update made inside a touchstart / touchend /         *)
(* touchcancel listener is rendered (with its effects) before the next     *)
(* event, so those actions include the render.  A state update made by a   *)
(* timer callback or a touchmove listener is rendered by a later task:     *)
(* the model keeps it pending (ctlDirty, padDirty) until a Render action,  *)
(* and other events may come first.  A render renders every pending        *)
(* update.                                                                 *)
(***************************************************************************)
EXTENDS Integers, Sequences, FiniteSets, TLC

VARIABLES
    controls,        \* controls prop: [defined, map]
    isRunning,       \* isRunning prop of VirtualController
    pressedButtons,  \* useState<Set<string>> of VirtualController
    sysTimers,       \* pending 100 ms release timers of handlePress, per button
    ctlDirty,        \* VirtualController has a state update not yet rendered
    touches,         \* the touches on the screen, oldest first (TouchEvent.touches)
    btn,             \* per button: the refs of useTouchHandlers, and whether
                     \* the VirtualButton is mounted
    pad,             \* the refs and state of Dpad, and whether it is mounted
    padDirty,        \* Dpad has a state update (isDragging) not yet rendered
    out,             \* keyboard events dispatched by the last step, in order
    posOut,          \* onPositionChange calls made by the last step, in order
    held,            \* key codes whose last dispatched event is a keydown
    last,            \* the last step: [op, who]
    calc,            \* the last drag position computed on its own (SpecClamp)
    layout,          \* useControllerLayout: isLocked, and the callbacks
                     \* called by the last step and before it
    shader           \* ShaderDropdown: its props, its state and the
                     \* onShaderChange calls of the last step

vars == <<controls, isRunning, pressedButtons, sysTimers, ctlDirty, touches,
          btn, pad, padDirty, out, posOut, held, last, calc, layout, shader>>

----------------------------------------------------------------------------
(* Bounds *)

MaxFingers == 2      \* touches on the screen at once
MaxTaps == 2         \* release timers of one system button pending at once

----------------------------------------------------------------------------
(* Layout and geometry *)

Directions == {"up", "down", "left", "right"}
DirectionOrder == <<"up", "down", "left", "right">>

GameButtons == {"a", "b"}
Buttons == GameButtons \cup {"start"}
ButtonOrder == <<"a", "b", "start">>

SYSTEM_BUTTONS == {"start", "select", "menu"}

\* viewport (landscape)
containerWidth == 400
containerHeight == 300

\* Dpad props given by VirtualController
dpadSize == IF containerWidth > containerHeight THEN 160 ELSE 180
dpadY == IF containerWidth > containerHeight THEN 55 ELSE 62
dpadX == 14

\* ButtonConfig of the layout: size and position in percent
ButtonConfig(b) ==
    CASE b = "a" -> [size |-> 60, x |-> 85, y |-> 60]
      [] b = "b" -> [size |-> 60, x |-> 70, y |-> 80]
      [] OTHER   -> [size |-> 40, x |-> 50, y |-> 90]

\* centre of an element in pixels: (display / 100) * container
Centre(x, y) == <<(x * containerWidth) \div 100, (y * containerHeight) \div 100>>
PadCentre == Centre(dpadX, dpadY)
BtnCentre(b) == Centre(ButtonConfig(b).x, ButtonConfig(b).y)

Plus(p, q) == <<p[1] + q[1], p[2] + q[2]>>
Dist2(p, q) == (p[1] - q[1]) * (p[1] - q[1]) + (p[2] - q[2]) * (p[2] - q[2])

\* touch positions tried on the D-pad, as offsets from its centre
PadOffsets == {<<0, 0>>, <<8, 0>>, <<20, 0>>, <<-40, -40>>, <<-60, 0>>}
PadPoints == {Plus(PadCentre, o) : o \in PadOffsets}

\* touch positions tried on a button, as offsets from its centre
BtnOffsets ==
    [b \in Buttons |-> IF b = "a" THEN {<<0, 0>>, <<28, 0>>} ELSE {<<0, 0>>}]

----------------------------------------------------------------------------
(* Keyboard event bridge *)

DEFAULT_CONTROLS ==
    [up |-> "ArrowUp", down |-> "ArrowDown", left |-> "ArrowLeft",
     right |-> "ArrowRight", a |-> "KeyX", b |-> "KeyZ", start |-> "Enter"]

\* a user mapping: "" stands for an entry that is absent or empty
CustomControls ==
    [up |-> "KeyW", down |-> "KeyS", left |-> "", right |-> "KeyD",
     a |-> "KeyJ", b |-> "", start |-> ""]

ControlsChoices ==
    {[defined |-> FALSE, map |-> DEFAULT_CONTROLS],
     [defined |-> TRUE, map |-> CustomControls]}

\* variant: an identifier that resolves to no code is used as the code
getKeyboardCode_Echo(buttonType, c) ==
    IF c.defined /\ buttonType \in DOMAIN c.map /\ c.map[buttonType] # ""
    THEN c.map[buttonType]
    ELSE IF buttonType \in DOMAIN DEFAULT_CONTROLS
         THEN DEFAULT_CONTROLS[buttonType]
         ELSE buttonType

\* getKeyboardCode: "" stands for null
getKeyboardCode(buttonType, c) ==
    IF c.defined /\ buttonType \in DOMAIN c.map /\ c.map[buttonType] # ""
    THEN c.map[buttonType]
    ELSE IF buttonType \in DOMAIN DEFAULT_CONTROLS
         THEN DEFAULT_CONTROLS[buttonType]
         ELSE ""

KeyDown(code) == [t |-> "keydown", code |-> code]
KeyUp(code) == [t |-> "keyup", code |-> code]

\* the held keys after the events evs are dispatched in order
RECURSIVE Dispatched(_, _)
Dispatched(h, evs) ==
    IF evs = <<>> THEN h
    ELSE Dispatched(IF Head(evs).t = "keydown" THEN h \cup {Head(evs).code}
                    ELSE h \ {Head(evs).code}, Tail(evs))

RECURSIVE Concat(_)
Concat(ss) == IF ss = <<>> THEN <<>> ELSE Head(ss) \o Concat(Tail(ss))

----------------------------------------------------------------------------
(* VirtualController: handlers.  Each returns the new pressed set and the  *)
(* keyboard events it dispatches; timers are added by the caller.          *)

getButtonKeyboardCode(buttonType) == getKeyboardCode(buttonType, controls)

\* variant: taps are accepted only while the game runs
handlePressAccepts_OnlyRunning(buttonType, running) ==
    /\ running
    /\ getButtonKeyboardCode(buttonType) # ""

\* handlePress accepts the tap (schedules the release timer)
handlePressAccepts(buttonType, running) ==
    /\ (buttonType \in SYSTEM_BUTTONS \/ running)
    /\ getButtonKeyboardCode(buttonType) # ""

handlePress(pressed, buttonType, running) ==
    IF handlePressAccepts(buttonType, running)
    THEN [pressed |-> pressed \cup {buttonType},
          evs |-> <<KeyDown(getButtonKeyboardCode(buttonType))>>,
          changed |-> TRUE]
    ELSE [pressed |-> pressed, evs |-> <<>>, changed |-> FALSE]

\* variant: the press is accepted whether the game runs or not
handlePressDown_AnyTime(pressed, buttonType, running) ==
    IF buttonType \notin SYSTEM_BUTTONS
       /\ getButtonKeyboardCode(buttonType) # ""
    THEN [pressed |-> pressed \cup {buttonType},
          evs |-> <<KeyDown(getButtonKeyboardCode(buttonType))>>,
          changed |-> buttonType \notin pressed]
    ELSE [pressed |-> pressed, evs |-> <<>>, changed |-> FALSE]

handlePressDown(pressed, buttonType, running) ==
    IF running /\ buttonType \notin SYSTEM_BUTTONS
       /\ getButtonKeyboardCode(buttonType) # ""
    THEN [pressed |-> pressed \cup {buttonType},
          evs |-> <<KeyDown(getButtonKeyboardCode(buttonType))>>,
          changed |-> buttonType \notin pressed]
    ELSE [pressed |-> pressed, evs |-> <<>>, changed |-> FALSE]

handleRelease(pressed, buttonType) ==
    IF buttonType \notin SYSTEM_BUTTONS /\ getButtonKeyboardCode(buttonType) # ""
    THEN [pressed |-> pressed \ {buttonType},
          evs |-> <<KeyUp(getButtonKeyboardCode(buttonType))>>,
          changed |-> buttonType \in pressed]
    ELSE [pressed |-> pressed, evs |-> <<>>, changed |-> FALSE]

\* variant: the pressed set is cleared without releasing the keys
ReleaseAllEffect_ClearOnly(running, pressed) ==
    IF ~running /\ pressed # {}
    THEN [pressed |-> {}, evs |-> <<>>]
    ELSE [pressed |-> pressed, evs |-> <<>>]

\* the release-all effect, run by a render with the given props and state
ReleaseAllEffect(running, pressed) ==
    IF ~running /\ pressed # {}
    THEN [pressed |-> {},
          evs |-> Concat([i \in 1..Len(ButtonOrder) |->
                    IF ButtonOrder[i] \in pressed
                       /\ ButtonOrder[i] \notin SYSTEM_BUTTONS
                    THEN handleRelease(pressed, ButtonOrder[i]).evs
                    ELSE <<>>])]
    ELSE [pressed |-> pressed, evs |-> <<>>]

----------------------------------------------------------------------------
(* Exact arithmetic on fractions [n, d] with d > 0 *)

Frac(n, d) == [n |-> n, d |-> d]
FLeq(a, b) == a.n * b.d <= b.n * a.d
FMin(a, b) == IF FLeq(a, b) THEN a ELSE b
FMax(a, b) == IF FLeq(a, b) THEN b ELSE a
IMin(a, b) == IF a <= b THEN a ELSE b

\* margin = (size / 2 / Math.min(containerWidth, containerHeight)) * 100
Margin(size, cw, ch) == Frac(size * 100, 2 * IMin(cw, ch))
UpperMargin(size, cw, ch) ==
    Frac(200 * IMin(cw, ch) - size * 100, 2 * IMin(cw, ch))

\* variant: only the lower limit is applied
Constrain_LowerOnly(v, size, cw, ch) == FMax(Margin(size, cw, ch), v)

\* Math.max(margin, Math.min(100 - margin, v))
Constrain(v, size, cw, ch) ==
    FMax(Margin(size, cw, ch), FMin(UpperMargin(size, cw, ch), v))

----------------------------------------------------------------------------
(* Rendering *)

\* listener effect cleanup of every VirtualButton: cleanup() -> clearDragTimer()
ButtonsRendered(bt) == [b \in Buttons |-> [bt[b] EXCEPT !.timer = {}]]

\* Dpad re-rendered: listener effect cleanup clears the drag timer and the
\* new listeners close over the current isDragging
DpadRendered(pd) == [pd EXCEPT !.timer = {}, !.rIsDragging = pd.isDragging]

\* The end of a step that left the pressed set pr, the dispatched events
\* evs, the hook refs bt, the Dpad pd and the position callbacks pos.
\* chCtl / chPad: the step changed state of VirtualController / of Dpad;
\* sync: the step's updates are rendered before the next event.
Commit(running, pr, evs, bt, pd, pos, chCtl, chPad, sync) ==
    LET eff == ReleaseAllEffect(running, pr) IN
    /\ posOut' = pos
    /\ IF sync /\ chCtl
       THEN /\ pressedButtons' = eff.pressed
            /\ out' = evs \o eff.evs
            /\ btn' = ButtonsRendered(bt)
            /\ pad' = DpadRendered(pd)
            /\ ctlDirty' = FALSE
            /\ padDirty' = FALSE
       ELSE /\ pressedButtons' = pr
            /\ out' = evs
            /\ btn' = bt
            /\ ctlDirty' = (ctlDirty \/ chCtl)
            /\ IF sync /\ chPad
               THEN pad' = DpadRendered(pd) /\ padDirty' = FALSE
               ELSE pad' = pd /\ padDirty' = (padDirty \/ chPad)
    /\ held' = Dispatched(held, out')
    /\ UNCHANGED <<calc, layout, shader>>

\* a pending state update of VirtualController is rendered
ControllerRender ==
    /\ ctlDirty
    /\ Commit(isRunning, pressedButtons, <<>>, btn, pad, <<>>, TRUE, FALSE, TRUE)
    /\ last' = [op |-> "ControllerRender", who |-> "controller"]
    /\ UNCHANGED <<controls, isRunning, sysTimers, touches>>

\* a pending state update of Dpad is rendered
DpadRender ==
    /\ padDirty
    /\ Commit(isRunning, pressedButtons, <<>>, btn, pad, <<>>, FALSE, TRUE, TRUE)
    /\ last' = [op |-> "DpadRender", who |-> "dpad"]
    /\ UNCHANGED <<controls, isRunning, sysTimers, touches>>

\* the parent renders VirtualController with a new isRunning
SetRunning(v) ==
    /\ v # isRunning
    /\ isRunning' = v
    /\ Commit(v, pressedButtons, <<>>, btn, pad, <<>>, TRUE, FALSE, TRUE)
    /\ last' = [op |-> "SetRunning", who |-> "controller"]
    /\ UNCHANGED <<controls, sysTimers, touches>>

----------------------------------------------------------------------------
(* VirtualController: system button release timer *)

\* setTimeout callback of handlePress, 100 ms after the tap
SysTimerFire(b, slot) ==
    /\ slot \in sysTimers[b]
    /\ sysTimers' = [sysTimers EXCEPT ![b] = @ \ {slot}]
    /\ Commit(isRunning, pressedButtons \ {b},
              <<KeyUp(getButtonKeyboardCode(b))>>, btn, pad, <<>>,
              TRUE, FALSE, FALSE)
    /\ last' = [op |-> "SysTimerFire", who |-> b]
    /\ UNCHANGED <<controls, isRunning, touches>>

----------------------------------------------------------------------------
(* Touches *)

FingerIds == 1..MaxFingers
UsedIds == {touches[i].id : i \in 1..Len(touches)}
FreeId == CHOOSE i \in FingerIds \ UsedIds : \A j \in FingerIds \ UsedIds : i <= j
Touching(target) == {touches[i].id : i \in {j \in 1..Len(touches) : touches[j].target = target}}

Added(id, target, p) == Append(touches, [id |-> id, target |-> target, pos |-> p])
Moved(id, p) == [i \in 1..Len(touches) |->
                    IF touches[i].id = id THEN [touches[i] EXCEPT !.pos = p]
                    ELSE touches[i]]
Removed(id) == SelectSeq(touches, LAMBDA t : t.id # id)
PosOf(id) == (CHOOSE i \in 1..Len(touches) : touches[i].id = id)

----------------------------------------------------------------------------
(* useTouchHandlers (generic button) *)

DRAG_MOVE_THRESHOLD == 10

\* isSystemButton of VirtualButton
isSystemButton(b) == b = "start" \/ b = "select" \/ b = "menu"

\* variant: every button calls the one-shot callback
TouchStartCallback_AlwaysPress(b) == "onPress"

\* the callback handleTouchStart calls (onPressDown is always given)
TouchStartCallback(b) == IF isSystemButton(b) THEN "onPress" ELSE "onPressDown"

\* distance < buttonSize * DRAG_CENTER_THRESHOLD (0.4)
NearCentre(b, p) ==
    25 * Dist2(p, BtnCentre(b)) < 4 * ButtonConfig(b).size * ButtonConfig(b).size

\* startDragging of the hook: s is the button's refs
startDragging(s, b, p, pressed) ==
    LET r == IF isSystemButton(b)
             THEN [pressed |-> pressed, evs |-> <<>>, changed |-> FALSE]
             ELSE handleRelease(pressed, b)
    IN [s |-> [s EXCEPT !.isDragging = TRUE,
                        !.dragStart = <<p[1] - BtnCentre(b)[1], p[2] - BtnCentre(b)[2]>>],
        r |-> r]

\* the drag movement of handleTouchMove: the position passed to
\* onPositionChange for a touch at p, with dragStartRef = start
ButtonPosition(p, start, size, cw, ch) ==
    <<Constrain(Frac((p[1] - start[1]) * 100, cw), size, cw, ch),
      Constrain(Frac((p[2] - start[2]) * 100, ch), size, cw, ch)>>

DragPosition(s, b, p) ==
    ButtonPosition(p, s.dragStart, ButtonConfig(b).size, containerWidth,
                   containerHeight)

handleTouchStart(b, p) ==
    /\ btn[b].mounted
    /\ Len(touches) < MaxFingers
    /\ (TouchStartCallback(b) = "onPress" /\ handlePressAccepts(b, isRunning))
          => Cardinality(sysTimers[b]) < MaxTaps
    /\ LET ts == Added(FreeId, b, p)
           touch == ts[1]                          \* e.touches[0]
           r == IF TouchStartCallback(b) = "onPress"
                THEN handlePress(pressedButtons, b, isRunning)
                ELSE handlePressDown(pressedButtons, b, isRunning)
           arm == NearCentre(b, touch.pos)
           s == [btn[b] EXCEPT
                   !.touchStartPos = touch.pos,
                   !.leaked = IF arm THEN @ \cup btn[b].timer ELSE @,
                   !.timer = IF arm THEN {touch.pos} ELSE @]
       IN /\ touches' = ts
          /\ sysTimers' =
                IF TouchStartCallback(b) = "onPress"
                   /\ handlePressAccepts(b, isRunning)
                THEN [sysTimers EXCEPT ![b] = @ \cup
                        {CHOOSE k \in 1..MaxTaps : k \notin sysTimers[b]}]
                ELSE sysTimers
          /\ Commit(isRunning, r.pressed, r.evs, [btn EXCEPT ![b] = s], pad,
                    <<>>, r.changed, FALSE, TRUE)
    /\ last' = [op |-> "handleTouchStart", who |-> b]
    /\ UNCHANGED <<controls, isRunning>>

handleTouchMove(b, id, p) ==
    /\ id \in Touching(b)
    /\ p # touches[PosOf(id)].pos
    /\ LET ts == Moved(id, p)
           touch == ts[1]                          \* e.touches[0]
           s0 == btn[b]
           start == ~s0.isDragging
                    /\ Dist2(touch.pos, s0.touchStartPos)
                         > DRAG_MOVE_THRESHOLD * DRAG_MOVE_THRESHOLD
           d == IF start
                THEN startDragging([s0 EXCEPT !.timer = {}], b, touch.pos,
                                   pressedButtons)
                ELSE [s |-> s0, r |-> [pressed |-> pressedButtons,
                                       evs |-> <<>>, changed |-> FALSE]]
           pos == IF d.s.isDragging
                  THEN <<<<b, DragPosition(d.s, b, touch.pos)>>>>
                  ELSE <<>>
       IN /\ touches' = ts
          /\ Commit(isRunning, d.r.pressed, d.r.evs, [btn EXCEPT ![b] = d.s],
                    pad, pos, d.r.changed, FALSE, FALSE)
    /\ last' = [op |-> "handleTouchMove", who |-> b]
    /\ UNCHANGED <<controls, isRunning, sysTimers>>

\* State reduction: touchStartPosRef is read only by handleTouchMove, which
\* runs while a touch is on the button and after handleTouchStart wrote it,
\* and dragStartRef is read only while isDraggingRef is set, after
\* startDragging wrote it.  The values left in them otherwise are never read
\* and are not kept.
Forget(b, s, fingers) ==
    [s EXCEPT !.touchStartPos = IF fingers = {} THEN <<0, 0>> ELSE @,
              !.dragStart = IF s.isDragging THEN @ ELSE <<0, 0>>]

\* the body shared by handleTouchEnd and handleTouchCancel
EndGesture(b, id) ==
    /\ id \in Touching(b)
    /\ LET s0 == [btn[b] EXCEPT !.timer = {}]      \* clearDragTimer()
           r == IF s0.isDragging \/ isSystemButton(b)
                THEN [pressed |-> pressedButtons, evs |-> <<>>,
                      changed |-> FALSE]
                ELSE handleRelease(pressedButtons, b)
           s == Forget(b, [s0 EXCEPT !.isDragging = FALSE], Touching(b) \ {id})
       IN /\ touches' = Removed(id)
          /\ Commit(isRunning, r.pressed, r.evs, [btn EXCEPT ![b] = s], pad,
                    <<>>, r.changed, FALSE, TRUE)
    /\ UNCHANGED <<controls, isRunning, sysTimers>>

handleTouchEnd(b, id) ==
    /\ EndGesture(b, id)
    /\ last' = [op |-> "handleTouchEnd", who |-> b]

handleTouchCancel(b, id) ==
    /\ EndGesture(b, id)
    /\ last' = [op |-> "handleTouchCancel", who |-> b]

\* the hold timer of handleTouchStart fires, DRAG_HOLD_DELAY after the touch
\* (cur: the timer dragTimerRef holds; otherwise one that a later
\* touch-start overwrote in dragTimerRef)
DragTimerFire(b, p, cur) ==
    /\ IF cur THEN p \in btn[b].timer ELSE p \in btn[b].leaked
    /\ LET s0 == IF cur THEN [btn[b] EXCEPT !.timer = {}]
                 ELSE [btn[b] EXCEPT !.leaked = @ \ {p}]
           d == IF ~s0.isDragging
                THEN startDragging(s0, b, p, pressedButtons)
                ELSE [s |-> s0, r |-> [pressed |-> pressedButtons,
                                       evs |-> <<>>, changed |-> FALSE]]
       IN Commit(isRunning, d.r.pressed, d.r.evs, [btn EXCEPT ![b] = d.s], pad,
                 <<>>, d.r.changed, FALSE, FALSE)
    /\ last' = [op |-> IF cur THEN "DragTimerFire" ELSE "LeakedTimerFire", who |-> b]
    /\ UNCHANGED <<controls, isRunning, sysTimers, touches>>

----------------------------------------------------------------------------
(* Dpad *)

\* getKeyCode of Dpad: "" when the mapping has no entry for the direction
getKeyCode(direction) ==
    IF ~controls.defined
    THEN CASE direction = "up" -> "ArrowUp"
           [] direction = "down" -> "ArrowDown"
           [] direction = "left" -> "ArrowLeft"
           [] OTHER -> "ArrowRight"
    ELSE IF direction \in DOMAIN controls.map THEN controls.map[direction] ELSE ""

\* variant: one direction at a time, the nearest axis
getDirectionsFromTouch_FourWay(p, centre, width) ==
    LET dx == p[1] - centre[1]
        dy == p[2] - centre[2]
    IN IF 1600 * (dx * dx + dy * dy) < 9 * width * width
       THEN {}
       ELSE {d \in Directions :
               \/ d = "up" /\ dy < 0 /\ dx * dx < dy * dy
               \/ d = "down" /\ dy > 0 /\ dx * dx < dy * dy
               \/ d = "left" /\ dx < 0 /\ dy * dy <= dx * dx
               \/ d = "right" /\ dx >= 0 /\ dy * dy <= dx * dx}

\* variant: the test of left joins its two bounds with "and"
getDirectionsFromTouch_LeftAnd(p, centre, width) ==
    LET dx == p[1] - centre[1]
        dy == p[2] - centre[2]
    IN IF 1600 * (dx * dx + dy * dy) < 9 * width * width
       THEN {}
       ELSE {d \in Directions :
               \/ d = "up" /\ dy < 0 /\ dx * dx <= 3 * dy * dy
               \/ d = "down" /\ dy > 0 /\ dx * dx <= 3 * dy * dy
               \/ d = "right" /\ (dx > 0 \/ (dx = 0 /\ dy = 0))
                              /\ dy * dy <= 3 * dx * dx}

\* getDirectionsFromTouch, for a touch at p and a rect of the given centre
\* and width.  The angle tests are those of Math.atan2(dy, dx) in degrees:
\* sin(angle) <= -1/2 for up, >= 1/2 for down; cos(angle) <= -1/2 for left,
\* >= 1/2 for right; atan2(0, 0) is 0.
getDirectionsFromTouch(p, centre, width) ==
    LET dx == p[1] - centre[1]
        dy == p[2] - centre[2]
    IN IF 1600 * (dx * dx + dy * dy) < 9 * width * width   \* distance < deadZone
       THEN {}
       ELSE {d \in Directions :
               \/ d = "up" /\ dy < 0 /\ dx * dx <= 3 * dy * dy
               \/ d = "down" /\ dy > 0 /\ dx * dx <= 3 * dy * dy
               \/ d = "left" /\ dx < 0 /\ dy * dy <= 3 * dx * dx
               \/ d = "right" /\ (dx > 0 \/ (dx = 0 /\ dy = 0))
                              /\ dy * dy <= 3 * dx * dx}

\* keyup for every direction of dirs that has a key code
ReleaseDirections(dirs) ==
    Concat([i \in 1..Len(DirectionOrder) |->
              IF DirectionOrder[i] \in dirs /\ getKeyCode(DirectionOrder[i]) # ""
              THEN <<KeyUp(getKeyCode(DirectionOrder[i]))>> ELSE <<>>])

\* keydown for every direction of dirs that has a key code
EngageDirections(dirs) ==
    Concat([i \in 1..Len(DirectionOrder) |->
              IF DirectionOrder[i] \in dirs /\ getKeyCode(DirectionOrder[i]) # ""
              THEN <<KeyDown(getKeyCode(DirectionOrder[i]))>> ELSE <<>>])

\* variant: every direction is released and the new ones are engaged
updateDirections_Resend(prev, newDirections) ==
    ReleaseDirections(prev) \o EngageDirections(newDirections)

\* updateDirections: the events dispatched when the active set goes from
\* prev to newDirections
updateDirections(prev, newDirections) ==
    ReleaseDirections(prev \ newDirections) \o EngageDirections(newDirections \ prev)

\* distFromCenter < size * CENTER_TOUCH_RADIUS (0.25)
OnPadCentre(p) == 16 * Dist2(p, PadCentre) < dpadSize * dpadSize

\* the drag movement of Dpad.handleTouchMove: the position passed to
\* onPositionChange for a touch at p, with dragStartRef = [x, y, touch]
DpadPosition(p, x, y, touch, size, cw, ch) ==
    <<Constrain(Frac(x * cw + 100 * (p[1] - touch[1]), cw), size, cw, ch),
      Constrain(Frac(y * ch + 100 * (p[2] - touch[2]), ch), size, cw, ch)>>

DpadDragPosition(pd, p) ==
    DpadPosition(p, dpadX, dpadY, pd.dragStart, dpadSize, containerWidth,
                 containerHeight)

\* variant: drag mode is entered with the directions left active
DpadStartDragging_KeepDirections(pd, p) ==
    [pd |-> [pd EXCEPT !.isDragging = TRUE, !.dragStart = p],
     evs |-> <<>>]

\* startDragging of Dpad: the new Dpad and the events
DpadStartDragging(pd, p) ==
    [pd |-> [pd EXCEPT !.isDragging = TRUE, !.dragStart = p,
                       !.activeDirections = {}],
     evs |-> ReleaseDirections(pd.activeDirections)]

DpadTouchStart(p) ==
    /\ pad.mounted
    /\ Len(touches) < MaxFingers
    /\ touches' = Added(FreeId, "dpad", p)
    /\ LET arm == OnPadCentre(p)
           dirs == IF pad.rIsDragging THEN pad.activeDirections
                   ELSE getDirectionsFromTouch(p, PadCentre, dpadSize)
           pd == [pad EXCEPT !.activeTouch = FreeId,
                             !.touchStartPos = p,
                             !.timer = IF arm THEN {p} ELSE @,
                             !.activeDirections = dirs]
       IN IF pad.activeTouch # 0
          THEN Commit(isRunning, pressedButtons, <<>>, btn, pad, <<>>,
                      FALSE, FALSE, TRUE)
          ELSE Commit(isRunning, pressedButtons,
                      updateDirections(pad.activeDirections, dirs), btn, pd,
                      <<>>, FALSE, FALSE, TRUE)
    /\ last' = [op |-> "DpadTouchStart",
                who |-> IF pad.activeTouch # 0 THEN "other" ELSE "tracked"]
    /\ UNCHANGED <<controls, isRunning, sysTimers>>

DpadTouchMove(id, p) ==
    /\ id \in Touching("dpad")
    /\ p # touches[PosOf(id)].pos
    /\ touches' = Moved(id, p)
    /\ LET dirs == getDirectionsFromTouch(p, PadCentre, dpadSize)
           pd == [pad EXCEPT
                    !.timer = IF Dist2(p, pad.touchStartPos) > 15 * 15
                              THEN {} ELSE @,
                    !.activeDirections = dirs]
       IN IF id # pad.activeTouch
          THEN Commit(isRunning, pressedButtons, <<>>, btn, pad, <<>>,
                      FALSE, FALSE, FALSE)
          ELSE IF pad.rIsDragging
          THEN Commit(isRunning, pressedButtons, <<>>, btn, pad,
                      <<<<"dpad", DpadDragPosition(pad, p)>>>>,
                      FALSE, FALSE, FALSE)
          ELSE Commit(isRunning, pressedButtons,
                      updateDirections(pad.activeDirections, dirs), btn, pd,
                      <<>>, FALSE, FALSE, FALSE)
    /\ last' = [op |-> "DpadTouchMove",
                who |-> IF id # pad.activeTouch THEN "other" ELSE "tracked"]
    /\ UNCHANGED <<controls, isRunning, sysTimers>>

\* State reduction: touchStartPosRef is read only for the tracked touch, after
\* handleTouchStart wrote it, and dragStartRef only by listeners that close
\* over isDragging = true, after startDragging wrote it.  The values left in
\* them otherwise are never read and are not kept.
DpadForget(pd) ==
    [pd EXCEPT !.touchStartPos = IF pd.activeTouch = 0 THEN <<0, 0>> ELSE @,
               !.dragStart = IF pd.isDragging THEN @ ELSE <<0, 0>>]

\* Dpad.handleTouchEnd, the listener of touchend and of touchcancel
DpadEndGesture(id) ==
    /\ id \in Touching("dpad")
    /\ touches' = Removed(id)
    /\ LET pd0 == [pad EXCEPT !.timer = {}]          \* clearDragTimer()
       IN IF id # pad.activeTouch
          THEN Commit(isRunning, pressedButtons, <<>>, btn, pd0, <<>>,
                      FALSE, FALSE, TRUE)
          ELSE IF pad.rIsDragging
          THEN Commit(isRunning, pressedButtons, <<>>, btn,
                      DpadForget([pd0 EXCEPT !.activeTouch = 0, !.isDragging = FALSE]),
                      <<>>, FALSE, pad.isDragging, TRUE)
          ELSE Commit(isRunning, pressedButtons,
                      ReleaseDirections(pad.activeDirections), btn,
                      DpadForget([pd0 EXCEPT !.activeTouch = 0, !.activeDirections = {}]),
                      <<>>, FALSE, FALSE, TRUE)
    /\ UNCHANGED <<controls, isRunning, sysTimers>>

DpadTouchEnd(id) ==
    /\ DpadEndGesture(id)
    /\ last' = [op |-> "DpadTouchEnd",
                who |-> IF id # pad.activeTouch THEN "other" ELSE "tracked"]

DpadTouchCancel(id) ==
    /\ DpadEndGesture(id)
    /\ last' = [op |-> "DpadTouchCancel",
                who |-> IF id # pad.activeTouch THEN "other" ELSE "tracked"]

\* the hold timer of Dpad.handleTouchStart fires
DpadTimerFire(p) ==
    /\ p \in pad.timer
    /\ LET d == DpadStartDragging([pad EXCEPT !.timer = {}], p)
       IN Commit(isRunning, pressedButtons, d.evs, btn, d.pd, <<>>,
                 FALSE, ~pad.isDragging, FALSE)
    /\ last' = [op |-> "DpadTimerFire", who |-> "dpad"]
    /\ UNCHANGED <<controls, isRunning, sysTimers, touches>>

----------------------------------------------------------------------------
(* Unmount *)

\* the touches that are not on the element target
NotOn(target) == SelectSeq(touches, LAMBDA t : t.target # target)

\* VirtualController renders without the VirtualButton b: the cleanup of the
\* button's listener effect runs (cleanup() -> clearDragTimer()) and its
\* element, with the touches on it, is gone
UnmountButton(b) ==
    /\ btn[b].mounted
    /\ touches' = NotOn(b)
    /\ Commit(isRunning, pressedButtons, <<>>,
              [btn EXCEPT ![b].timer = {}, ![b].mounted = FALSE], pad, <<>>,
              TRUE, FALSE, TRUE)
    /\ last' = [op |-> "Unmount", who |-> b]
    /\ UNCHANGED <<controls, isRunning, sysTimers>>

\* VirtualController renders without the Dpad: the cleanup of its listener
\* effect runs (clearDragTimer()) and its element is gone
UnmountDpad ==
    /\ pad.mounted
    /\ touches' = NotOn("dpad")
    /\ Commit(isRunning, pressedButtons, <<>>, btn,
              [pad EXCEPT !.timer = {}, !.mounted = FALSE], <<>>,
              TRUE, FALSE, TRUE)
    /\ last' = [op |-> "Unmount", who |-> "dpad"]
    /\ UNCHANGED <<controls, isRunning, sysTimers>>

----------------------------------------------------------------------------
(* Keyboard event bridge: key names and the canvas *)

\* A keyboard code as the sequence of its characters
CodeChars ==
    [ArrowUp |-> <<"A", "r", "r", "o", "w", "U", "p">>,
     ArrowDown |-> <<"A", "r", "r", "o", "w", "D", "o", "w", "n">>,
     ArrowLeft |-> <<"A", "r", "r", "o", "w", "L", "e", "f", "t">>,
     ArrowRight |-> <<"A", "r", "r", "o", "w", "R", "i", "g", "h", "t">>,
     KeyX |-> <<"K", "e", "y", "X">>,
     KeyZ |-> <<"K", "e", "y", "Z">>,
     Enter |-> <<"E", "n", "t", "e", "r">>,
     KeyW |-> <<"K", "e", "y", "W">>,
     KeyS |-> <<"K", "e", "y", "S">>,
     KeyD |-> <<"K", "e", "y", "D">>,
     KeyJ |-> <<"K", "e", "y", "J">>]

UpperCase ==
    <<"A", "B", "C", "D", "E", "F", "G", "H", "I", "J", "K", "L", "M", "N", "O", "P", "Q", "R", "S", "T", "U", "V", "W", "X", "Y", "Z">>
LowerCase ==
    <<"a", "b", "c", "d", "e", "f", "g", "h", "i", "j", "k", "l", "m", "n", "o", "p", "q", "r", "s", "t", "u", "v", "w", "x", "y", "z">>

\* String.prototype.toLowerCase on the characters used
toLowerCase(cs) ==
    [i \in 1..Len(cs) |->
        IF \E k \in 1..Len(UpperCase) : UpperCase[k] = cs[i]
        THEN LowerCase[CHOOSE k \in 1..Len(UpperCase) : UpperCase[k] = cs[i]]
        ELSE cs[i]]

\* String.prototype.startsWith and slice(n)
startsWith(cs, prefix) ==
    Len(cs) >= Len(prefix) /\ SubSeq(cs, 1, Len(prefix)) = prefix
slice(cs, n) == SubSeq(cs, n + 1, Len(cs))

\* variant: the Arrow prefix is kept
getKeyName_KeepArrow(code) ==
    IF startsWith(code, <<"K", "e", "y">>) THEN toLowerCase(slice(code, 3))
    ELSE IF code = <<"E", "n", "t", "e", "r">> THEN <<"E", "n", "t", "e", "r">>
    ELSE IF code = <<"S", "h", "i", "f", "t", "R", "i", "g", "h", "t">> \/ code = <<"S", "h", "i", "f", "t", "L", "e", "f", "t">>
    THEN <<"S", "h", "i", "f", "t">>
    ELSE code

getKeyName(code) ==
    IF startsWith(code, <<"K", "e", "y">>) THEN toLowerCase(slice(code, 3))
    ELSE IF startsWith(code, <<"A", "r", "r", "o", "w">>) THEN slice(code, 5)
    ELSE IF code = <<"E", "n", "t", "e", "r">> THEN <<"E", "n", "t", "e", "r">>
    ELSE IF code = <<"S", "h", "i", "f", "t", "R", "i", "g", "h", "t">> \/ code = <<"S", "h", "i", "f", "t", "L", "e", "f", "t">>
    THEN <<"S", "h", "i", "f", "t">>
    ELSE code

\* The document: whether a canvas is inside .game-canvas-container, and
\* whether there is a canvas elsewhere
Documents == [container : BOOLEAN, other : BOOLEAN]

\* variant: only the canvas of the container is looked for
getCanvas_ContainerOnly(doc) == IF doc.container THEN "container canvas" ELSE "null"

getCanvas(doc) ==
    IF doc.container THEN "container canvas"
    ELSE IF doc.other THEN "first canvas"
    ELSE "null"

\* dispatchKeyboardEvent: the value returned and the events dispatched
dispatchKeyboardEvent(doc, type, code) ==
    IF getCanvas(doc) = "null"
    THEN [ret |-> FALSE, sent |-> <<>>]
    ELSE [ret |-> TRUE,
          sent |-> <<[target |-> getCanvas(doc), type |-> type, code |-> code,
                      key |-> getKeyName(CodeChars[code]),
                      bubbles |-> TRUE, cancelable |-> TRUE]>>]

\* the button identifiers given to the handlers: those of the layout, a
\* system button and a game button without key code
BridgeButtons == Buttons \cup {"menu", "x"}
BridgeHandlers == {"handlePress", "handlePressDown", "handleRelease"}

\* the codes whose key name is derived
NamePrefixes == {<<>>, <<"K", "e", "y">>, <<"A", "r", "r", "o", "w">>,
                 <<"k", "e", "y">>}
NameRests == {<<>>, <<"X">>, <<"z">>, <<"U", "p">>, <<"L", "e", "f", "t">>,
              <<"1">>}
NameCodes ==
    {pre \o rest : pre \in NamePrefixes, rest \in NameRests}
    \cup {CodeChars[c] : c \in DOMAIN CodeChars}
    \cup {<<"S", "h", "i", "f", "t", "L", "e", "f", "t">>, <<"S", "h", "i", "f", "t", "R", "i", "g", "h", "t">>,
          <<"S", "h", "i", "f", "t">>, <<"S", "p", "a", "c", "e">>}

BridgeUnchanged ==
    UNCHANGED <<controls, isRunning, pressedButtons, sysTimers, ctlDirty,
                touches, btn, pad, padDirty, out, posOut, held, last,
                layout, shader>>

\* one call of dispatchKeyboardEvent
BridgeDispatch(doc, type, code) ==
    /\ calc' = [kind |-> "dispatch", doc |-> doc, type |-> type, code |-> code,
                res |-> dispatchKeyboardEvent(doc, type, code)]
    /\ BridgeUnchanged

\* one call of a handler of VirtualController with the pressed set pressed:
\* its result, whether it starts a release timer, and what its calls of
\* dispatchKeyboardEvent dispatch
BridgeHandler(doc, h, b, pressed) ==
    LET r == CASE h = "handlePress" -> handlePress(pressed, b, isRunning)
               [] h = "handlePressDown" -> handlePressDown(pressed, b, isRunning)
               [] OTHER -> handleRelease(pressed, b)
    IN /\ calc' = [kind |-> "handler", doc |-> doc, h |-> h, b |-> b,
                   before |-> pressed, r |-> r,
                   timer |-> (h = "handlePress" /\ handlePressAccepts(b, isRunning)),
                   sent |-> Concat([i \in 1..Len(r.evs) |->
                              dispatchKeyboardEvent(doc, r.evs[i].t,
                                                    r.evs[i].code).sent])]
       /\ BridgeUnchanged

\* one call of getKeyName
BridgeKeyName(code) ==
    /\ calc' = [kind |-> "name", code |-> code, name |-> getKeyName(code)]
    /\ BridgeUnchanged

\* the key code of a direction, by the Dpad and by the keyboard bridge
BridgeDirection(direction) ==
    /\ calc' = [kind |-> "direction", direction |-> direction,
                dpad |-> getKeyCode(direction),
                bridge |-> getKeyboardCode(direction, controls)]
    /\ BridgeUnchanged

NextBridge ==
    \/ \E doc \in Documents, type \in {"keydown", "keyup"},
          code \in DOMAIN CodeChars : BridgeDispatch(doc, type, code)
    \/ \E doc \in Documents, h \in BridgeHandlers, b \in BridgeButtons :
          \E pressed \in {{}, {b}} : BridgeHandler(doc, h, b, pressed)
    \/ \E code \in NameCodes : BridgeKeyName(code)
    \/ \E direction \in Directions : BridgeDirection(direction)

----------------------------------------------------------------------------
(* useControllerLayout *)

MaxToggles == 3

\* React may call a state updater once, or twice in a row with the same
\* argument (StrictMode builds); toggleLock calls its callbacks inside the
\* updater
UpdaterRuns == {1, 2}

PanelUnchanged ==
    UNCHANGED <<controls, isRunning, pressedButtons, sysTimers, ctlDirty,
                touches, btn, pad, padDirty, out, posOut, held, calc>>

\* the last callback called so far
LastCall ==
    IF layout.calls = <<>> THEN layout.lastCall
    ELSE layout.calls[Len(layout.calls)]

\* the layout after a step that does not toggle the lock
LayoutIdle == [layout EXCEPT !.calls = <<>>, !.lastCall = LastCall]

\* the updater toggleLock passes to setIsLocked: the new value and the
\* callback it calls
toggleUpdater(prev) ==
    LET newValue == ~prev
    IN [value |-> newValue,
        call |-> IF newValue THEN "onResume" ELSE "onPause"]

\* toggleLock, its updater being run `runs` times by React
toggleLock(runs) ==
    /\ layout.toggles < MaxToggles
    /\ layout' = [isLocked |-> toggleUpdater(layout.isLocked).value,
                  toggles |-> layout.toggles + 1,
                  calls |-> [i \in 1..runs |->
                               toggleUpdater(layout.isLocked).call],
                  lastCall |-> LastCall]
    /\ last' = [op |-> "toggleLock", who |-> "layout"]
    /\ shader' = [shader EXCEPT !.calls = <<>>]
    /\ PanelUnchanged

----------------------------------------------------------------------------
(* ShaderDropdown *)

QUICK_PRESETS ==
    <<"", "crt/crt-lottes", "crt/crt-easymode", "crt/crt-geom",
      "handheld/lcd-grid-v2">>
ShaderIds == {QUICK_PRESETS[i] : i \in 1..Len(QUICK_PRESETS)}

\* pendingShader = null (the id '' is a shader)
NoShader == "null"

\* the parent renders ShaderDropdown with new props
ShaderRender(currentShader, running, disabled) ==
    /\ <<currentShader, running, disabled>> #
          <<shader.currentShader, shader.isRunning, shader.disabled>>
    /\ shader' = [shader EXCEPT !.currentShader = currentShader,
                                !.isRunning = running,
                                !.disabled = disabled,
                                !.calls = <<>>]
    /\ last' = [op |-> "ShaderRender", who |-> "shader"]
    /\ layout' = LayoutIdle
    /\ PanelUnchanged

\* onClick of the trigger button (a disabled button gets no click)
TriggerClick ==
    /\ ~shader.disabled
    /\ shader' = [shader EXCEPT !.isOpen = ~shader.isOpen, !.calls = <<>>]
    /\ last' = [op |-> "TriggerClick", who |-> "shader"]
    /\ layout' = LayoutIdle
    /\ PanelUnchanged

\* variant: the shader is applied at once whether the game runs or not
handleSelect_ApplyAtOnce(s, id) ==
    IF id = s.currentShader
    THEN [s EXCEPT !.isOpen = FALSE, !.calls = <<>>]
    ELSE [s EXCEPT !.isOpen = FALSE, !.calls = <<<<id, FALSE>>>>]

\* handleSelect: the new state and the onShaderChange calls
handleSelect(s, id) ==
    IF id = s.currentShader
    THEN [s EXCEPT !.isOpen = FALSE, !.calls = <<>>]
    ELSE IF s.isRunning
    THEN [s EXCEPT !.pendingShader = id, !.calls = <<>>]
    ELSE [s EXCEPT !.isOpen = FALSE, !.calls = <<<<id, FALSE>>>>]

\* a click on an entry of the shader list, which is rendered while the menu
\* is open and no confirmation is pending
SelectShader(id) ==
    /\ shader.isOpen
    /\ shader.pendingShader = NoShader
    /\ shader' = handleSelect(shader, id)
    /\ last' = [op |-> "handleSelect", who |-> id]
    /\ layout' = LayoutIdle
    /\ PanelUnchanged

confirmRestart(s) ==
    IF s.pendingShader # NoShader
    THEN [s EXCEPT !.pendingShader = NoShader, !.isOpen = FALSE,
                   !.calls = <<<<s.pendingShader, TRUE>>>>]
    ELSE [s EXCEPT !.calls = <<>>]

cancelRestart(s) == [s EXCEPT !.pendingShader = NoShader, !.calls = <<>>]

\* the Restart and Cancel buttons are rendered while the menu is open and
\* a confirmation is pending
ConfirmClick ==
    /\ shader.isOpen
    /\ shader.pendingShader # NoShader
    /\ shader' = confirmRestart(shader)
    /\ last' = [op |-> "confirmRestart", who |-> "shader"]
    /\ layout' = LayoutIdle
    /\ PanelUnchanged

CancelClick ==
    /\ shader.isOpen
    /\ shader.pendingShader # NoShader
    /\ shader' = cancelRestart(shader)
    /\ last' = [op |-> "cancelRestart", who |-> "shader"]
    /\ layout' = LayoutIdle
    /\ PanelUnchanged

\* handleClickOutside, for a mousedown outside the dropdown
OutsideClick ==
    /\ shader' = [shader EXCEPT !.isOpen = FALSE, !.pendingShader = NoShader,
                                !.calls = <<>>]
    /\ last' = [op |-> "handleClickOutside", who |-> "shader"]
    /\ layout' = LayoutIdle
    /\ PanelUnchanged

\* the layout lock and the shader menu of the player
NextPanel ==
    \/ \E runs \in UpdaterRuns : toggleLock(runs)
    \/ \E id \in ShaderIds, running \in BOOLEAN, disabled \in BOOLEAN :
          ShaderRender(id, running, disabled)
    \/ TriggerClick
    \/ \E id \in ShaderIds : SelectShader(id)
    \/ ConfirmClick
    \/ CancelClick
    \/ OutsideClick

----------------------------------------------------------------------------
(* Specification *)

Init ==
    /\ controls \in ControlsChoices
    /\ isRunning \in BOOLEAN
    /\ pressedButtons = {}
    /\ sysTimers = [b \in Buttons |-> {}]
    /\ ctlDirty = FALSE
    /\ touches = <<>>
    /\ btn = [b \in Buttons |->
                [isDragging |-> FALSE, timer |-> {}, leaked |-> {},
                 touchStartPos |-> <<0, 0>>, dragStart |-> <<0, 0>>,
                 mounted |-> TRUE]]
    /\ pad = [activeTouch |-> 0, activeDirections |-> {}, isDragging |-> FALSE,
              rIsDragging |-> FALSE, timer |-> {}, touchStartPos |-> <<0, 0>>,
              dragStart |-> <<0, 0>>, mounted |-> TRUE]
    /\ padDirty = FALSE
    /\ out = <<>>
    /\ posOut = <<>>
    /\ held = {}
    /\ last = [op |-> "Init", who |-> "controller"]
    /\ calc = [kind |-> "none"]
    /\ layout = [isLocked |-> TRUE, toggles |-> 0, calls |-> <<>>,
                 lastCall |-> "none"]
    /\ shader = [currentShader |-> "", isRunning |-> FALSE,
                 disabled |-> FALSE, isOpen |-> FALSE,
                 pendingShader |-> NoShader, calls |-> <<>>]

\* steps of VirtualController and its buttons, with touches on the buttons
\* BS, on button b at the offsets BO[b] from its centre
ControllerStep(BS, BO) ==
    \/ ControllerRender
    \/ \E b \in BS, k \in 1..MaxTaps : SysTimerFire(b, k)
    \/ \E b \in BS : \E o \in BO[b] : handleTouchStart(b, Plus(BtnCentre(b), o))
    \/ \E b \in BS, id \in FingerIds : \E o \in BO[b] :
          handleTouchMove(b, id, Plus(BtnCentre(b), o))
    \/ \E b \in BS, id \in FingerIds : handleTouchEnd(b, id)
    \/ \E b \in BS, id \in FingerIds : handleTouchCancel(b, id)
    \/ \E b \in BS, cur \in BOOLEAN : \E o \in BO[b] :
          DragTimerFire(b, Plus(BtnCentre(b), o), cur)

\* steps of the D-pad, with touches at the offsets PO from its centre
DpadStep(PO) ==
    \/ DpadRender
    \/ \E o \in PO : DpadTouchStart(Plus(PadCentre, o))
    \/ \E id \in FingerIds, o \in PO : DpadTouchMove(id, Plus(PadCentre, o))
    \/ \E id \in FingerIds : DpadTouchEnd(id)
    \/ \E id \in FingerIds : DpadTouchCancel(id)
    \/ \E o \in PO : DpadTimerFire(Plus(PadCentre, o))

\* the controller and its buttons
Next ==
    \/ \E v \in BOOLEAN : SetRunning(v)
    \/ ControllerStep(Buttons, BtnOffsets)

\* the D-pad under a controller whose buttons are not touched
NextPad ==
    \/ \E v \in BOOLEAN : SetRunning(v)
    \/ DpadStep(PadOffsets)

\* a game button and the D-pad, either of which may be unmounted
UnmountOffsets == {<<0, 0>>, <<-60, 0>>}

NextUnmount ==
    \/ \E v \in BOOLEAN : SetRunning(v)
    \/ ControllerRender
    \/ \E o \in BtnOffsets["a"] : handleTouchStart("a", Plus(BtnCentre("a"), o))
    \/ \E id \in FingerIds : handleTouchEnd("a", id)
    \/ \E cur \in BOOLEAN : \E o \in BtnOffsets["a"] :
          DragTimerFire("a", Plus(BtnCentre("a"), o), cur)
    \/ DpadRender
    \/ \E o \in UnmountOffsets : DpadTouchStart(Plus(PadCentre, o))
    \/ \E id \in FingerIds : DpadTouchEnd(id)
    \/ \E o \in UnmountOffsets : DpadTimerFire(Plus(PadCentre, o))
    \/ UnmountButton("a")
    \/ UnmountDpad

\* A touch that sweeps over the D-pad 60 px from its centre, from the angle
\* -170 degrees to -10 degrees in steps of 5 degrees: the offsets
\* (60 cos, 60 sin), rounded
SweepPath ==
    <<<<-59, -10>>, <<-58, -16>>, <<-56, -21>>, <<-54, -25>>, <<-52, -30>>,
      <<-49, -34>>, <<-46, -39>>, <<-42, -42>>, <<-39, -46>>, <<-34, -49>>,
      <<-30, -52>>, <<-25, -54>>, <<-21, -56>>, <<-16, -58>>, <<-10, -59>>,
      <<-5, -60>>, <<0, -60>>, <<5, -60>>, <<10, -59>>, <<16, -58>>,
      <<21, -56>>, <<25, -54>>, <<30, -52>>, <<34, -49>>, <<39, -46>>,
      <<42, -42>>, <<46, -39>>, <<49, -34>>, <<52, -30>>, <<54, -25>>,
      <<56, -21>>, <<58, -16>>, <<59, -10>>>>

\* the tracked touch is at the i-th point of the path
SweepAt(i) ==
    /\ pad.activeTouch # 0
    /\ \E k \in 1..Len(touches) :
          /\ touches[k].id = pad.activeTouch
          /\ touches[k].pos = Plus(PadCentre, SweepPath[i])

\* the touch lands on the first point of the path
SweepStart ==
    /\ touches = <<>>
    /\ DpadTouchStart(Plus(PadCentre, SweepPath[1]))

\* the touch moves from the i-th point of the path to the next
SweepMove(i) ==
    /\ SweepAt(i)
    /\ DpadTouchMove(pad.activeTouch, Plus(PadCentre, SweepPath[i + 1]))

NextSweep ==
    \/ \E v \in BOOLEAN : SetRunning(v)
    \/ SweepStart
    \/ \E i \in 1..(Len(SweepPath) - 1) : SweepMove(i)
    \/ DpadTouchEnd(pad.activeTouch)

\* One finger on the D-pad: it lands on one of a few points and moves over
\* the points of a grid over the pad
GridCoords == {-60, -35, -20, -10, 0, 10, 20, 35, 60}
GridOffsets == {<<x, y>> : x \in GridCoords, y \in GridCoords}
GridStarts == {<<0, 0>>, <<-60, 0>>, <<35, -35>>}

GridStart(o) ==
    /\ touches = <<>>
    /\ DpadTouchStart(Plus(PadCentre, o))

GridMove(o) ==
    /\ pad.activeTouch # 0
    /\ DpadTouchMove(pad.activeTouch, Plus(PadCentre, o))

NextGrid ==
    \/ \E v \in BOOLEAN : SetRunning(v)
    \/ DpadRender
    \/ \E o \in GridStarts : GridStart(o)
    \/ \E o \in GridOffsets : GridMove(o)
    \/ \E id \in FingerIds : DpadTouchEnd(id)
    \/ \E o \in GridStarts : DpadTimerFire(Plus(PadCentre, o))

\* taps on the start button
NextTap ==
    \/ \E v \in BOOLEAN : SetRunning(v)
    \/ ControllerRender
    \/ \E k \in 1..MaxTaps : SysTimerFire("start", k)
    \/ handleTouchStart("start", BtnCentre("start"))
    \/ \E id \in FingerIds : handleTouchEnd("start", id)

\* The drag position computations on their own, for sizes, container
\* dimensions and touch positions beyond those of the layout above
ClampSizes == {40, 60, 160, 180}
ClampWidths == {100, 320, 400}
ClampHeights == {150, 300, 640}
ClampTouches == {<<-50, 700>>, <<0, 0>>, <<130, 90>>, <<900, -20>>}

ButtonDragMove(size, cw, ch, p, start) ==
    /\ calc' = [kind |-> "button", size |-> size, cw |-> cw, ch |-> ch,
                pos |-> ButtonPosition(p, start, size, cw, ch)]
    /\ UNCHANGED <<controls, isRunning, pressedButtons, sysTimers, ctlDirty,
                   touches, btn, pad, padDirty, out, posOut, held, last,
                layout, shader>>

DpadDragMove(size, cw, ch, p, touch) ==
    /\ calc' = [kind |-> "dpad", size |-> size, cw |-> cw, ch |-> ch,
                pos |-> DpadPosition(p, dpadX, dpadY, touch, size, cw, ch)]
    /\ UNCHANGED <<controls, isRunning, pressedButtons, sysTimers, ctlDirty,
                   touches, btn, pad, padDirty, out, posOut, held, last,
                layout, shader>>

NextClamp ==
    \/ \E size \in ClampSizes, cw \in ClampWidths, ch \in ClampHeights,
          p \in ClampTouches, start \in {<<0, 0>>, <<20, -20>>} :
          ButtonDragMove(size, cw, ch, p, start)
    \/ \E size \in ClampSizes, cw \in ClampWidths, ch \in ClampHeights,
          p \in ClampTouches, touch \in {<<56, 165>>, <<130, 90>>} :
          DpadDragMove(size, cw, ch, p, touch)

Spec == Init /\ [][Next]_vars

SpecPad == Init /\ [][NextPad]_vars

\* a timer that is never cleared fires
SpecTap ==
    /\ Init
    /\ [][NextTap]_vars
    /\ \A k \in 1..MaxTaps : WF_vars(SysTimerFire("start", k))

SpecClamp == Init /\ [][NextClamp]_vars

SpecUnmount == Init /\ [][NextUnmount]_vars

SpecBridge == Init /\ [][NextBridge]_vars

SpecSweep == Init /\ [][NextSweep]_vars

SpecPanel == Init /\ [][NextPanel]_vars

SpecGrid == Init /\ [][NextGrid]_vars

----------------------------------------------------------------------------
(* Properties *)

Range(seq) == {seq[i] : i \in 1..Len(seq)}
Code(b) == getButtonKeyboardCode(b)
DirCodes(dirs) == {getKeyCode(d) : d \in dirs} \ {""}
FEq(a, b) == FLeq(a, b) /\ FLeq(b, a)
GameCodes == ({Code(b) : b \in GameButtons} \ {""}) \cup DirCodes(Directions)

\* C1: when isRunning goes from true to false, a keyup is dispatched for
\* the key code of every game button in the pressed set, and none of them
\* is in the pressed set afterwards.
C1_ReleaseAllOnStop ==
    [][(isRunning /\ ~isRunning') =>
          \A b \in pressedButtons \ SYSTEM_BUTTONS :
              /\ KeyUp(Code(b)) \in Range(out')
              /\ b \notin pressedButtons']_vars

\* two game buttons were held when the game stopped
C1_Witness ==
    /\ last.op = "SetRunning"
    /\ ~isRunning
    /\ {KeyUp(Code(b)) : b \in GameButtons} \subseteq Range(out)
    /\ pressedButtons = {}

\* C2: while isRunning is false, once the release effect has run, no key
\* code of a game button or of a D-pad direction has a keydown without a
\* later keyup, and no game button or D-pad direction dispatches a keydown.
C2_NoStuckKeyAcrossStop ==
    ~isRunning =>
        /\ ~ctlDirty => held \cap GameCodes = {}
        /\ \A e \in Range(out) : e.t = "keydown" => e.code \notin GameCodes

\* C3: a tap on the start button is accepted whatever isRunning is: it
\* dispatches the keydown and schedules a release timer; and every release
\* timer scheduled fires and dispatches the keyup of the same code.
C3_TapIsReleased ==
    /\ [][(last'.op = "handleTouchStart" /\ last'.who = "start") =>
            /\ KeyDown(Code("start")) \in Range(out')
            /\ sysTimers["start"] \subseteq sysTimers'["start"]
            /\ sysTimers'["start"] # sysTimers["start"]]_vars
    /\ \A k \in 1..MaxTaps :
          (k \in sysTimers["start"]) ~>
              (/\ k \notin sysTimers["start"]
               /\ last.op = "SysTimerFire"
               /\ out = <<KeyUp(Code("start"))>>)

\* a tap accepted while the game was not running, released while it is not
C3_Witness ==
    /\ last.op = "SysTimerFire"
    /\ ~isRunning
    /\ out = <<KeyUp(Code("start"))>>
    /\ Code("start") \notin held

\* C4: a system button's key is down only while one of its release timers
\* is pending (it is never held), and a game button never has a release
\* timer.
C4_TapOrHold ==
    \A b \in Buttons :
        /\ isSystemButton(b) => (Code(b) \in held => sysTimers[b] # {})
        /\ ~isSystemButton(b) => sysTimers[b] = {}

\* a game button is held while the start button's pulse is pending
C4_Witness ==
    /\ "a" \in pressedButtons
    /\ Code("a") \in held
    /\ sysTimers["a"] = {}
    /\ sysTimers["start"] # {}
    /\ Code("start") \in held

\* C5: the step that enters drag mode on the D-pad dispatches a keyup for
\* the key code of every active direction, empties the active set and
\* emits no position; and a position is emitted only once drag mode is
\* entered.
C5_DragEntryReleases ==
    /\ [][last'.op = "DpadTimerFire" =>
            /\ \A c \in DirCodes(pad.activeDirections) : KeyUp(c) \in Range(out')
            /\ \A e \in Range(out') : e.t = "keyup"
            /\ pad'.activeDirections = {}
            /\ posOut' = <<>>]_vars
    /\ [](posOut # <<>> => pad.isDragging)

\* drag mode was entered with a direction active
C5_Witness ==
    /\ last.op = "DpadTimerFire"
    /\ out # <<>>
    /\ pad.isDragging
    /\ pad.activeDirections = {}

\* no keydown of evs, dispatched in order from the held keys h, is for a
\* key that is down
NoRepeatedKeyDown(h, evs) ==
    \A i \in 1..Len(evs) :
        evs[i].t = "keydown" =>
            evs[i].code \notin Dispatched(h, SubSeq(evs, 1, i - 1))

\* C6: a touch-start or touch-move on the D-pad dispatches a keyup exactly
\* for the directions that leave the active set and a keydown exactly for
\* those that enter it, each once; and no step dispatches a keydown for a
\* direction key that is down.
C6_DirectionDiff ==
    /\ [][last'.op \in {"DpadTouchStart", "DpadTouchMove"} =>
            /\ {e \in Range(out') : e.t = "keyup"} =
                  {KeyUp(c) : c \in DirCodes(pad.activeDirections
                                               \ pad'.activeDirections)}
            /\ {e \in Range(out') : e.t = "keydown"} =
                  {KeyDown(c) : c \in DirCodes(pad'.activeDirections
                                                 \ pad.activeDirections)}
            /\ Len(out') = Cardinality(Range(out'))]_vars
    /\ [][NoRepeatedKeyDown(held, out')]_vars

\* a move from up+left to left: a keyup for up, nothing for left
C6_Witness ==
    /\ last.op = "DpadTouchMove"
    /\ pad.activeDirections = {"left"}
    /\ out = <<KeyUp(getKeyCode("up"))>>
    /\ getKeyCode("left") \in held

InDeadZone(p) == getDirectionsFromTouch(p, PadCentre, dpadSize) = {}
                    /\ 1600 * Dist2(p, PadCentre) < 9 * dpadSize * dpadSize
TrackedPos(ts, id) == (CHOOSE t \in Range(ts) : t.id = id).pos

\* C7: a touch-start at the exact centre of the D-pad while no touch is
\* tracked leaves the active set empty and dispatches no keyboard event;
\* and while the tracked touch stays in the dead zone with no direction
\* active, no step (a move, the hold timer, a render) makes a direction
\* active or dispatches a keyboard event.
C7_CentreTouchSilent ==
    /\ [][(/\ last'.op = "DpadTouchStart"
           /\ pad.activeTouch = 0
           /\ touches'[Len(touches')].pos = PadCentre) =>
              (pad'.activeDirections = {} /\ out' = <<>>)]_vars
    /\ [][(/\ pad.activeTouch # 0
           /\ pad'.activeTouch = pad.activeTouch
           /\ pad.activeDirections = {}
           /\ InDeadZone(TrackedPos(touches, pad.activeTouch))
           /\ InDeadZone(TrackedPos(touches', pad.activeTouch))) =>
              (pad'.activeDirections = {} /\ out' = <<>>)]_vars

\* C9: a touch-cancel of the only touch on a game button, arriving while
\* its hold timer is pending or while it is dragging, clears the hold timer
\* and leaves the button out of the pressed set with its key up.
C9_CancelLeavesUnpressed ==
    [][\A b \in GameButtons :
          (/\ last'.op = "handleTouchCancel"
           /\ last'.who = b
           /\ Cardinality(Touching(b)) = 1
           /\ (btn[b].timer # {} \/ btn[b].isDragging)) =>
              /\ btn'[b].timer = {}
              /\ b \notin pressedButtons'
              /\ Code(b) \notin held']_vars

\* C10: a touch-end or touch-cancel of the tracked touch of the D-pad,
\* arriving while the hold timer is pending or in drag mode, clears the
\* timer and leaves no direction active and no direction key down.
C10_EndLeavesNoDirection ==
    [][(/\ last'.op \in {"DpadTouchEnd", "DpadTouchCancel"}
        /\ last'.who = "tracked"
        /\ (pad.timer # {} \/ pad.isDragging)) =>
           /\ pad'.timer = {}
           /\ pad'.activeDirections = {}
           /\ held' \cap DirCodes(Directions) = {}]_vars

\* C8: every position given to onPositionChange lies in
\* [margin, 100 - margin] on both axes.
C8_PositionInMargins ==
    calc.kind # "none" =>
        \A i \in 1..2 :
            /\ FLeq(Margin(calc.size, calc.cw, calc.ch), calc.pos[i])
            /\ FLeq(calc.pos[i], UpperMargin(calc.size, calc.cw, calc.ch))

\* C8 as amended: for a control no larger than the smaller container
\* dimension the position lies in [margin, 100 - margin] on both axes; for
\* a larger one it is margin on both axes.
C8_PositionInMarginsIfFits ==
    calc.kind # "none" =>
        \A i \in 1..2 :
            IF calc.size <= IMin(calc.cw, calc.ch)
            THEN /\ FLeq(Margin(calc.size, calc.cw, calc.ch), calc.pos[i])
                 /\ FLeq(calc.pos[i], UpperMargin(calc.size, calc.cw, calc.ch))
            ELSE FEq(calc.pos[i], Margin(calc.size, calc.cw, calc.ch))

\* a touch beyond the left and bottom edges: x is held at margin, y at
\* 100 - margin
C8_Witness ==
    /\ calc.kind = "button"
    /\ calc.size <= IMin(calc.cw, calc.ch)
    /\ FEq(calc.pos[1], Margin(calc.size, calc.cw, calc.ch))
    /\ FEq(calc.pos[2], UpperMargin(calc.size, calc.cw, calc.ch))

\* C11: the unmount of a game button or of the D-pad leaves no timer of the
\* component pending (the hold timer, or one that a later touch-start
\* replaced) and no key of the component down.
C11_UnmountReleases ==
    [][last'.op = "Unmount" =>
          IF last'.who = "dpad"
          THEN /\ pad'.timer = {}
               /\ held' \cap DirCodes(Directions) = {}
          ELSE /\ btn'[last'.who].timer = {}
               /\ btn'[last'.who].leaked = {}
               /\ Code(last'.who) \notin held']_vars

\* C12: dispatchKeyboardEvent returns false and dispatches nothing when the
\* document has no canvas, and otherwise returns true and dispatches one
\* event of the requested type and code to the canvas; and a handler calls
\* it once for each event, whether the dispatch fails or not.
C12_DispatchOrSkip ==
    /\ calc.kind = "dispatch" =>
          IF ~calc.doc.container /\ ~calc.doc.other
          THEN calc.res.ret = FALSE /\ calc.res.sent = <<>>
          ELSE /\ calc.res.ret = TRUE
               /\ Len(calc.res.sent) = 1
               /\ calc.res.sent[1].type = calc.type
               /\ calc.res.sent[1].code = calc.code
               /\ calc.res.sent[1].target =
                     IF calc.doc.container THEN "container canvas"
                     ELSE "first canvas"
    /\ calc.kind = "handler" =>
          /\ Len(calc.r.evs) <= 1
          /\ Len(calc.sent) =
                IF ~calc.doc.container /\ ~calc.doc.other THEN 0
                ELSE Len(calc.r.evs)

\* a press whose keydown finds no canvas: one call, nothing dispatched
C12_Witness ==
    /\ calc.kind = "handler"
    /\ ~calc.doc.container /\ ~calc.doc.other
    /\ calc.h = "handlePressDown"
    /\ Len(calc.r.evs) = 1
    /\ calc.sent = <<>>

\* the identifier b is in neither mapping
Unmapped(b) ==
    /\ b \notin DOMAIN DEFAULT_CONTROLS
    /\ ~controls.defined \/ b \notin DOMAIN controls.map \/ controls.map[b] = ""

\* C13: handlePress, handlePressDown and handleRelease of a button whose
\* identifier resolves to no keyboard code dispatch no keyboard event,
\* start no timer and leave the pressed set unchanged.
C13_UnmappedIsSkipped ==
    (calc.kind = "handler" /\ Unmapped(calc.b)) =>
        /\ calc.r.evs = <<>>
        /\ calc.sent = <<>>
        /\ ~calc.timer
        /\ calc.r.pressed = calc.before
        /\ ~calc.r.changed

\* a tap on the unmapped system button, with a canvas
C13_Witness ==
    /\ calc.kind = "handler"
    /\ calc.h = "handlePress"
    /\ calc.b = "menu"
    /\ Unmapped(calc.b)
    /\ calc.doc.container
    /\ calc.sent = <<>>

\* C14: the Dpad resolves the key code of every direction to the code that
\* getKeyboardCode resolves it to.
C14_SameResolution ==
    calc.kind = "direction" => calc.dpad = calc.bridge

\* the name that results from stripping a prefix and keeping the rest
StrippedName(code) ==
    IF startsWith(code, <<"K", "e", "y">>) THEN slice(code, 3)
    ELSE IF startsWith(code, <<"A", "r", "r", "o", "w">>) THEN slice(code, 5)
    ELSE IF code \in {<<"S", "h", "i", "f", "t", "L", "e", "f", "t">>,
                      <<"S", "h", "i", "f", "t", "R", "i", "g", "h", "t">>}
    THEN <<"S", "h", "i", "f", "t">>
    ELSE code

\* C15: the key name of a code is the code without its "Key" or "Arrow"
\* prefix, the remaining characters unchanged; "Shift" for ShiftLeft and
\* ShiftRight; and the code itself for Enter and every other code.
C15_KeyNameUnchanged ==
    calc.kind = "name" => calc.name = StrippedName(calc.code)

\* C15 as amended: as above, except that the characters that follow a
\* "Key" prefix are put in lower case.
C15_KeyNameLowered ==
    calc.kind = "name" =>
        calc.name = IF startsWith(calc.code, <<"K", "e", "y">>)
                    THEN toLowerCase(StrippedName(calc.code))
                    ELSE StrippedName(calc.code)

\* the name of KeyX is x
C15_Witness ==
    /\ calc.kind = "name"
    /\ calc.code = <<"K", "e", "y", "X">>
    /\ calc.name = <<"x">>

\* C16: a touch-start on a game button while isRunning is false dispatches
\* no keydown and adds no button to the pressed set.
C16_NoPressWhileStopped ==
    [][(/\ last'.op = "handleTouchStart"
        /\ last'.who \in GameButtons
        /\ ~isRunning) =>
           /\ \A e \in Range(out') : e.t # "keydown"
           /\ pressedButtons' \subseteq pressedButtons
           /\ last'.who \notin pressedButtons']_vars

\* a game button touched while the game is stopped
C16_Witness ==
    /\ last.op = "handleTouchStart"
    /\ last.who = "a"
    /\ ~isRunning
    /\ Touching("a") # {}
    /\ out = <<>>
    /\ pressedButtons = {}

\* C17: the start button is in the pressed set exactly while its key is
\* down: from the tap's keydown to the keyup of the release timer.
C17_FlagFollowsPulse ==
    ("start" \in pressedButtons) <=> (Code("start") \in held)

\* C18: while the D-pad is in drag mode no direction is active and no step
\* dispatches a direction keydown.
C18_DragExcludesDirections ==
    pad.isDragging =>
        /\ pad.activeDirections = {}
        /\ \A e \in Range(out) : e.t # "keydown"

\* C20: a touch-end or touch-cancel on a button leaves none of its hold
\* timers pending, and a hold timer fires only while a touch is on the
\* button.
C20_TimerEndsWithGesture ==
    /\ [][last'.op \in {"handleTouchEnd", "handleTouchCancel"} =>
            /\ btn'[last'.who].timer = {}
            /\ btn'[last'.who].leaked = {}]_vars
    /\ [][last'.op \in {"DragTimerFire", "LeakedTimerFire"} =>
            Touching(last'.who) # {}]_vars

\* a touch-start or touch-move that changes the active directions changes
\* them by one of the pairs of steps, and dispatches the keyups of the
\* directions that leave, the keydowns of those that enter, each once
SweepChanges(steps) ==
    (/\ last'.op \in {"DpadTouchStart", "DpadTouchMove"}
     /\ pad'.activeDirections # pad.activeDirections) =>
        /\ <<pad.activeDirections, pad'.activeDirections>> \in steps
        /\ {e \in Range(out') : e.t = "keyup"} =
              {KeyUp(c) : c \in DirCodes(pad.activeDirections
                                           \ pad'.activeDirections)}
        /\ {e \in Range(out') : e.t = "keydown"} =
              {KeyDown(c) : c \in DirCodes(pad'.activeDirections
                                             \ pad.activeDirections)}
        /\ Len(out') = Cardinality(Range(out'))
        /\ NoRepeatedKeyDown(held, out')

\* C19: along the sweep from -170 to -10 degrees the active set goes from
\* {left} to {left, up} or to {up}, from {left, up} to {up} and from {up}
\* to {right}, each change dispatching the delta key events.
C19_SweepLeftUpRight ==
    [][SweepChanges({<<{}, {"left"}>>,
                     <<{"left"}, {"left", "up"}>>,
                     <<{"left"}, {"up"}>>,
                     <<{"left", "up"}, {"up"}>>,
                     <<{"up"}, {"right"}>>})]_vars

\* C19 as amended: the active set goes from {left} to {left, up}, to {up},
\* to {up, right} and to {right}, each change dispatching the delta key
\* events.
C19_SweepWithDiagonals ==
    [][SweepChanges({<<{}, {"left"}>>,
                     <<{"left"}, {"left", "up"}>>,
                     <<{"left", "up"}, {"up"}>>,
                     <<{"up"}, {"up", "right"}>>,
                     <<{"up", "right"}, {"right"}>>})]_vars

\* the last change of the sweep: up is released, right stays down
C19_Witness ==
    /\ last.op = "DpadTouchMove"
    /\ pad.activeDirections = {"right"}
    /\ out = <<KeyUp(getKeyCode("up"))>>
    /\ getKeyCode("right") \in held

\* C21: a generic button enters drag mode only through the drag-armed
\* state: by the hold timer of a touch that landed in the centre zone, or
\* by a move of a touch that landed in the centre zone; a touch that
\* landed outside the centre zone never starts a drag.
C21_DragOnlyFromCentre ==
    [][\A b \in Buttons :
          (~btn[b].isDragging /\ btn'[b].isDragging) =>
             /\ last'.op \in {"DragTimerFire", "LeakedTimerFire",
                              "handleTouchMove"}
             /\ last'.who = b
             /\ last'.op = "handleTouchMove" =>
                   NearCentre(b, btn[b].touchStartPos)]_vars

\* the handlers and timers of the hook
HookOps ==
    {"handleTouchStart", "handleTouchMove", "handleTouchEnd",
     "handleTouchCancel", "DragTimerFire", "LeakedTimerFire"}
EndOps == {"handleTouchEnd", "handleTouchCancel"}

\* the number of keyup events for the key of button b in evs
Releases(b, evs) ==
    Cardinality({i \in 1..Len(evs) : evs[i] = KeyUp(Code(b))})

\* C22: a gesture on a game button is released exactly once: a step of the
\* hook releases the button once when it activates drag mode, once when it
\* is a touch-end or touch-cancel outside drag mode, and not at all
\* otherwise; it releases only during a gesture, and when the last gesture
\* on the button has ended its key is up; a step of a system button's hook
\* never releases.
C22_OneReleasePerGesture ==
    [][\A b \in Buttons :
          (last'.who = b /\ last'.op \in HookOps /\ Code(b) # "") =>
             IF isSystemButton(b) THEN Releases(b, out') = 0
             ELSE /\ Releases(b, out') =
                        IF \/ ~btn[b].isDragging /\ btn'[b].isDragging
                           \/ last'.op \in EndOps /\ ~btn[b].isDragging
                        THEN 1 ELSE 0
                  /\ Releases(b, out') > 0 => Touching(b) # {}
                  /\ (\A i \in 1..Len(touches') : touches'[i].target # b)
                        => Code(b) \notin held']_vars

\* C23: after a touch-start in the centre zone of a game button the hold
\* timer is pending, so that a touch held still ends in drag mode; also
\* when the press changed the pressed set and the controller re-rendered.
C23_HoldTimerPending ==
    [][\A b \in GameButtons :
          (/\ last'.op = "handleTouchStart"
           /\ last'.who = b
           /\ NearCentre(b, btn'[b].touchStartPos)) =>
              btn'[b].timer # {}]_vars

\* C24: while the D-pad tracks a touch, an event of any other touch on the
\* pad leaves the tracked identifier, the active directions, the dragging
\* flag and the pending hold timer unchanged and dispatches no event.
C24_OtherTouchIgnored ==
    [][(/\ last'.op \in {"DpadTouchStart", "DpadTouchMove", "DpadTouchEnd",
                         "DpadTouchCancel"}
        /\ last'.who = "other"
        /\ pad.activeTouch # 0) =>
           /\ pad'.activeTouch = pad.activeTouch
           /\ pad'.activeDirections = pad.activeDirections
           /\ pad'.isDragging = pad.isDragging
           /\ pad'.timer = pad.timer
           /\ out' = <<>>]_vars

\* the key codes of the game buttons
ButtonCodes == {Code(b) : b \in GameButtons} \ {""}

\* C25: the events of a game button's key alternate: a keydown is
\* dispatched only while the key is up and a keyup only while it is down.
C25_KeyEventsAlternate ==
    [][\A i \in 1..Len(out') :
          out'[i].code \in ButtonCodes =>
             LET h == Dispatched(held, SubSeq(out', 1, i - 1))
             IN IF out'[i].t = "keydown" THEN out'[i].code \notin h
                ELSE out'[i].code \in h]_vars

\* useButtonPositions.savePosition, the position store being an external
\* key-value store: the write a call makes
savePosition(key, position) == [key |-> key, position |-> position]

\* the writes of the position store in the last step: VirtualController
\* passes savePosition as the onPositionChange of every button and of Dpad
StoreWrites(calls) == {savePosition(calls[i][1], calls[i][2]) : i \in 1..Len(calls)}

\* C26: the position store is written only when a drag session ends: by a
\* touch-end or touch-cancel of an element in drag mode, and not by a
\* touch-move in the middle of a drag.
C26_SavedAtDragEnd ==
    [][StoreWrites(posOut') # {} =>
          /\ last'.op \in {"handleTouchEnd", "handleTouchCancel",
                           "DpadTouchEnd", "DpadTouchCancel"}
          /\ \A w \in StoreWrites(posOut') :
                IF w.key = "dpad" THEN pad.isDragging
                ELSE btn[w.key].isDragging]_vars

\* C27: useControllerLayout starts locked; each toggleLock flips isLocked
\* and calls exactly one callback exactly once, onPause when the layout
\* becomes unlocked and onResume when it becomes locked; isLocked holds
\* exactly after an even number of toggles, and the calls alternate,
\* starting with onPause.
C27_ToggleCallsOnce ==
    [][last'.op = "toggleLock" =>
          /\ layout'.isLocked = ~layout.isLocked
          /\ layout'.calls =
                <<IF layout'.isLocked THEN "onResume" ELSE "onPause">>
          /\ layout'.isLocked <=> (layout'.toggles % 2 = 0)
          /\ \A i \in 1..Len(layout'.calls) :
                LET before == IF i = 1 THEN layout'.lastCall
                              ELSE layout'.calls[i - 1]
                IN /\ layout'.calls[i] # before
                   /\ before = "none" => layout'.calls[i] = "onPause"]_vars

\* C28: a selection of a shader other than the current one while the game
\* runs calls nothing and records the pending shader; onShaderChange(id,
\* true) is called only by confirmRestart, for the pending shader; while
\* the game does not run the selection calls onShaderChange(id, false) and
\* closes the menu; a selection of the current shader calls nothing.
C28_RestartOnlyOnConfirm ==
    [][/\ last'.op = "handleSelect" =>
             IF last'.who = shader.currentShader
             THEN shader'.calls = <<>>
             ELSE IF shader.isRunning
             THEN /\ shader'.calls = <<>>
                  /\ shader'.pendingShader = last'.who
             ELSE /\ shader'.calls = <<<<last'.who, FALSE>>>>
                  /\ ~shader'.isOpen
       /\ \A i \in 1..Len(shader'.calls) :
             shader'.calls[i][2] =>
                /\ last'.op = "confirmRestart"
                /\ shader.pendingShader # NoShader
                /\ shader'.calls[i][1] = shader.pendingShader]_vars

\* a shader picked while the game ran has been confirmed
C28_Witness ==
    /\ last.op = "confirmRestart"
    /\ shader.isRunning
    /\ shader.calls = <<<<"crt/crt-geom", TRUE>>>>
    /\ ~shader.isOpen
    /\ shader.pendingShader = NoShader

\* C29: a restart confirmation is pending only while the menu is open.
C29_PendingOnlyWhileOpen ==
    shader.pendingShader # NoShader => shader.isOpen

Opposite == {{"up", "down"}, {"left", "right"}}

\* no two opposite directions are in dirs
NoOpposite(dirs) == \A pair \in Opposite : ~(pair \subseteq dirs)

\* C30: a touch-start or touch-move of the tracked touch to a position
\* outside the dead zone leaves one or two active directions, never two
\* opposite ones; and the keys of two opposite directions are never both
\* down.
C30_OneOrTwoNoOpposite ==
    [][/\ (/\ last'.op \in {"DpadTouchStart", "DpadTouchMove"}
           /\ last'.who = "tracked"
           /\ ~pad.rIsDragging
           /\ 1600 * Dist2(TrackedPos(touches', pad'.activeTouch), PadCentre)
                 >= 9 * dpadSize * dpadSize) =>
              /\ Cardinality(pad'.activeDirections) \in {1, 2}
              /\ NoOpposite(pad'.activeDirections)
       /\ \A pair \in Opposite :
             \/ \E d \in pair : getKeyCode(d) = ""
             \/ ~(DirCodes(pair) \subseteq held')]_vars

\* a diagonal: the keys of up and of right are both down
C30_Witness ==
    /\ last.op = "DpadTouchMove"
    /\ pad.activeDirections = {"up", "right"}
    /\ {getKeyCode("up"), getKeyCode("right")} \subseteq held
    /\ getKeyCode("up") # ""
    /\ getKeyCode("right") # ""

====
